---- MODULE Spec2Model ----
(***************************************************************************)
(* Fund-flow tracing over the blockchain.info address history service.     *)
(*                                                                         *)
(*   basic_bitcoin_tracker.py : get_address_info (rate-limited fetch with  *)
(*       retry on HTTP 429), analyze_transactions (classifier of genuine   *)
(*       spends), recursive_trace (depth-bounded, cycle-safe DFS that      *)
(*       follows the 3 destinations of highest volume), save_results and   *)
(*       analyze_wallet (the export of the edges).                         *)
(*   grafo_transacciones.py : get_outgoing_transactions and                *)
(*       get_incoming_transactions (heuristic attribution of amounts),     *)
(*       analyze_ransomware_flow and main (the accumulator's flow model).  *)
(*                                                                         *)
(* JSON objects are records; dict.get(k, d) is Get(obj, k, d), so a        *)
(* missing key is a key outside DOMAIN.  Python's None is None (for an     *)
(* address) or PyNone (for a response or a JSON null).  Amounts are        *)
(* integers of satoshis; value_btc = satoshis / 10^8 is kept as the pair   *)
(* <<satoshis, SatoshisPerBtc>>, so sums and comparisons of value_btc are  *)
(* exact (floating-point rounding of the sums is not modelled).            *)
(***************************************************************************)
EXTENDS Integers, Sequences, FiniteSets, TLC

\* ------------------------------------------------------------------ bounds
MaxDepth == 5
MaxRetries == 4

\* ------------------------------------------------------- program constants
DefaultMaxRetries == 3
TopK == 3
SatoshisPerBtc == 100000000

\* --------------------------------------------------------- python values
None == "None"
PyNone == [none |-> TRUE]
EmptyDict == [k \in {} |-> 0]

Get(obj, key, default) == IF key \in DOMAIN obj THEN obj[key] ELSE default

\* truth value of an address-like string: None and "" are falsy
TruthyStr(s) == s # None /\ s # ""

\* `not address_data`: None and the empty dict are falsy
Falsy(d) == d = PyNone \/ DOMAIN d = {}

Btc(satoshis) == <<satoshis, SatoshisPerBtc>>

BtcPositive(v) == v[1] > 0

\* --------------------------------------------------------------- ledgers
\* The remote service answers from a ledger: a sequence of transactions.
\* rawaddr/<address> lists every transaction the address takes part in, as
\* an input source or as an output destination, in ledger order.
In(a, v) == [prev_out |-> [addr |-> a, value |-> v]]
Out(a, v) == [addr |-> a, value |-> v]
Tx(h, ins, outs, fee) == [hash |-> h, inputs |-> ins, out |-> outs, fee |-> fee]

TxInputAddrs(tx) ==
    {Get(Get(tx.inputs[i], "prev_out", EmptyDict), "addr", None) : i \in 1..Len(tx.inputs)}

TxOutputAddrs(tx) == {Get(tx.out[i], "addr", None) : i \in 1..Len(tx.out)}

Involves(tx, a) == a \in TxInputAddrs(tx) \/ a \in TxOutputAddrs(tx)

RECURSIVE SelectTxs(_, _)
SelectTxs(ledger, a) ==
    IF ledger = <<>> THEN <<>>
    ELSE IF Involves(Head(ledger), a)
         THEN <<Head(ledger)>> \o SelectTxs(Tail(ledger), a)
         ELSE SelectTxs(Tail(ledger), a)

SnapshotOf(ledger, a) == [txs |-> SelectTxs(ledger, a)]

\* ------------------------------------------------- analyze_transactions
\* a bug: the outputs are searched instead of the inputs
is_spending_Outputs(tx, target_address) ==
    \E i \in 1..Len(Get(tx, "out", <<>>)) :
        Get(Get(tx, "out", <<>>)[i], "addr", None) # target_address

\* lines 113-119: the target address is the source of some input
is_spending(tx, target_address) ==
    \E i \in 1..Len(Get(tx, "inputs", <<>>)) :
        Get(Get(Get(tx, "inputs", <<>>)[i], "prev_out", EmptyDict), "addr", None)
            = target_address

\* a bug: zero-value outputs pass
IsRealOutput_ZeroPasses(dest_address, target_address, value_btc) ==
    TruthyStr(dest_address) /\ dest_address # target_address /\ value_btc[1] >= 0

\* a bug: an output back to the analysed address counts as a transfer
IsRealOutput_SelfPasses(dest_address, target_address, value_btc) ==
    TruthyStr(dest_address) /\ BtcPositive(value_btc)

\* line 133: the filter of genuine outputs
IsRealOutput(dest_address, target_address, value_btc) ==
    TruthyStr(dest_address) /\ dest_address # target_address /\ BtcPositive(value_btc)

\* line 145: the fee in BTC when the transaction has a (non-zero) fee, else 0.0
TxFee(tx) == IF Get(tx, "fee", 0) # 0 THEN Btc(Get(tx, "fee", 0)) ELSE Btc(0)

\* line 109: the UNIX time of the transaction, 0 without one, as a local date
\* and time; the model keeps the instant that is rendered
tx_time(tx) == [fromtimestamp |-> Get(tx, "time", 0)]

\* lines 137-146
FlowEdge(tx, target_address, dest_address, value_satoshis) ==
    [tx_hash |-> Get(tx, "hash", None),
     timestamp |-> tx_time(tx),
     from_address |-> target_address,
     to_address |-> dest_address,
     value_btc |-> Btc(value_satoshis),
     value_satoshis |-> value_satoshis,
     tx_fee |-> TxFee(tx)]

\* lines 126-146: the loop over the outputs of one spending transaction;
\* acc is the pair of accumulators (outgoing_addresses, transaction_details)
RECURSIVE ScanOutputs(_, _, _, _)
ScanOutputs(tx, target_address, outs, acc) ==
    IF outs = <<>> THEN acc
    ELSE LET output == Head(outs)
             dest_address == Get(output, "addr", None)
             value_satoshis == Get(output, "value", 0)
         IN ScanOutputs(tx, target_address, Tail(outs),
                IF IsRealOutput(dest_address, target_address, Btc(value_satoshis))
                THEN [outgoing_addresses |-> acc.outgoing_addresses \cup {dest_address},
                      transaction_details |->
                          Append(acc.transaction_details,
                                 FlowEdge(tx, target_address, dest_address, value_satoshis))]
                ELSE acc)

\* lines 106-146: the loop over the transactions of the snapshot
RECURSIVE ScanTxs(_, _, _)
ScanTxs(txs, target_address, acc) ==
    IF txs = <<>> THEN acc
    ELSE ScanTxs(Tail(txs), target_address,
             IF is_spending(Head(txs), target_address)
             THEN ScanOutputs(Head(txs), target_address, Get(Head(txs), "out", <<>>), acc)
             ELSE acc)

analyze_transactions(address_data, target_address) ==
    IF Falsy(address_data) \/ "txs" \notin DOMAIN address_data
    THEN [outgoing_addresses |-> {}, transaction_details |-> <<>>]
    ELSE ScanTxs(address_data.txs, target_address,
                 [outgoing_addresses |-> {}, transaction_details |-> <<>>])

\* an exception leaves analyze_transactions
AttributeError == [raised |-> "AttributeError"]

\* a bug: input_item['prev_out'], which raises for an input without the key
PrevOutRaises_Subscript(input_item) ==
    "prev_out" \notin DOMAIN input_item \/ input_item.prev_out = PyNone

\* lines 115-116: for an input whose JSON has "prev_out": null,
\* input_item.get('prev_out', {}) is None and prev_out.get raises
PrevOutRaises(input_item) == Get(input_item, "prev_out", EmptyDict) = PyNone

\* lines 113-119: the loop over the inputs raises at an input it reaches,
\* that is, one before which no input of the target made it break
InputsRaise(inputs, target_address) ==
    \E i \in DOMAIN inputs :
        /\ PrevOutRaises(inputs[i])
        /\ \A j \in 1..(i - 1) :
              Get(Get(inputs[j], "prev_out", EmptyDict), "addr", None) # target_address

\* lines 98-148: analyze_transactions raises instead of returning
Raises(address_data, target_address) ==
    /\ ~(Falsy(address_data) \/ "txs" \notin DOMAIN address_data)
    /\ \E t \in DOMAIN address_data.txs :
          InputsRaise(Get(address_data.txs[t], "inputs", <<>>), target_address)

\* ----------------------------------------------------- get_address_info
\* A response of requests.get: [status, body], or a transport error (a
\* requests.exceptions.RequestException raised by requests.get itself).
TransportError == [error |-> "RequestException"]

IsTransportError(resp) == "error" \in DOMAIN resp

\* a bug: the status is never looked at
RaisesForStatus_Never(status) == FALSE

\* line 61: response.raise_for_status() raises HTTPError for 4xx and 5xx
RaisesForStatus(status) == status >= 400 /\ status < 600

\* a bug: one attempt too many
MayRetry_OffByOne(retry_count, max_retries) == retry_count <= max_retries

\* line 52: one more attempt is allowed
MayRetry(retry_count, max_retries) == retry_count < max_retries

\* lines 44-73: what one request of get_address_info leads to.
\*   retry  : sleep(wait_time) and call get_address_info again (lines 53-55)
\*   return : the call returns `result`; slept tells whether time.sleep ran
\*            between the response and the return (line 65)
AfterResponse(resp, retry_count, max_retries) ==
    IF IsTransportError(resp)
    THEN [kind |-> "return", slept |-> FALSE, result |-> PyNone]
    ELSE IF resp.status = 429
    THEN IF MayRetry(retry_count, max_retries)
         THEN [kind |-> "retry", slept |-> TRUE, result |-> PyNone]
         ELSE [kind |-> "return", slept |-> FALSE, result |-> PyNone]
    ELSE IF RaisesForStatus(resp.status)
    THEN [kind |-> "return", slept |-> FALSE, result |-> PyNone]
    ELSE [kind |-> "return", slept |-> TRUE, result |-> resp.body]

\* ------------------------------------------------------- recursive_trace
VARIABLES
    entry,             \* the function under execution: get_address_info or recursive_trace
    ledger,            \* what the remote service knows
    max_depth,         \* recursive_trace's max_depth
    max_retries,       \* get_address_info's max_retries
    stack,             \* the activation records of recursive_trace, the root first
    heap,              \* the visited sets (python set objects); a frame holds a reference
    all_transactions,  \* the shared accumulator (one python list object)
    fpc,               \* get_address_info: "idle", "request" (about to call requests.get), "returned"
    faddr,             \* get_address_info's address
    retry_count,       \* get_address_info's retry_count
    fresult,           \* the value get_address_info returned
    responses,         \* history: the status of every response of the current call (-1: transport error)
    lastEvent,         \* history: the last thing done on the network: "none", "request" or "wait"
    backToBack,        \* history: a request was issued right after a request, with no wait between
    fetchLog,          \* history: the addresses recursive_trace has called get_address_info for
    fetched,           \* history: the addresses whose fetch gave recursive_trace data, in order
    done,              \* the function under execution has returned
    returned,          \* the value it returned
    csv_rows           \* analyze_wallet: what save_results wrote, once it was called

traceVars == <<entry, ledger, max_depth, max_retries, stack, heap, all_transactions, fpc,
               faddr, retry_count, fresult, responses, lastEvent, backToBack, fetchLog,
               fetched, done, returned, csv_rows>>

\* analyze_transactions, get_outgoing_transactions or get_incoming_transactions
\* called on its own
VARIABLES
    address_data,      \* the response body it works on
    target_address,    \* the address it is called for
    classified,        \* analyze_transactions: what it returned, once it has;
                       \* the aggregator's functions: the local outgoing / incoming
    tx_index           \* the aggregator's functions: the transactions gone through
                       \* (-1: the request is still to be made)

clsVars == <<address_data, target_address, classified, tx_index>>

\* grafo_transacciones.py: main and analyze_ransomware_flow
VARIABLES
    flow_pc,           \* "off", "level0", "level1", "level2", "returned", "exit"
    initial_address,   \* analyze_ransomware_flow's argument
    flow_data,         \* its local flow_data
    flow_result,       \* the value it returned to main
    exported,          \* main has called export_to_csv and create_graph
    failed             \* history: the levels whose query failed

flowVars == <<flow_pc, initial_address, flow_data, flow_result, exported, failed>>

vars == <<traceVars, clsVars, flowVars>>

Seed == "A"

\* ---- the ledgers
Addr3 == <<"A", "B", "C">>

RECURSIVE OutsTo(_, _)
OutsTo(addrs, dests) ==
    IF addrs = <<>> THEN <<>>
    ELSE IF Head(addrs) \in dests
         THEN <<Out(Head(addrs), 1)>> \o OutsTo(Tail(addrs), dests)
         ELSE OutsTo(Tail(addrs), dests)

\* one spending transaction per address x that pays the addresses of d[x], 1 satoshi each
RECURSIVE GraphLedger(_, _)
GraphLedger(addrs, d) ==
    IF addrs = <<>> THEN <<>>
    ELSE LET x == Head(addrs)
         IN (IF d[x] = {} THEN <<>>
             ELSE <<Tx(x, <<In(x, Cardinality(d[x]) + 1)>>, OutsTo(Addr3, d[x]), 1)>>)
            \o GraphLedger(Tail(addrs), d)

\* every transfer graph over three addresses (no self loops)
GraphLedgers ==
    {GraphLedger(Addr3, d) :
        d \in {f \in [{"A", "B", "C"} -> SUBSET {"A", "B", "C"}] :
                   \A x \in {"A", "B", "C"} : x \notin f[x]}}

\* A pays four destinations, two of them tie for the third place; E pays on
StarLedger ==
    <<Tx("s1", <<In("A", 9)>>,
         <<Out("B", 3), Out("C", 2), Out("D", 1), Out("E", 1), Out("A", 1)>>, 1),
      Tx("s2", <<In("E", 1)>>, <<Out("B", 1)>>, 0)>>

\* D is a destination in two sibling subtrees
DiamondLedger ==
    <<Tx("d1", <<In("A", 4)>>, <<Out("B", 2), Out("C", 1)>>, 1),
      Tx("d2", <<In("B", 2)>>, <<Out("D", 1)>>, 1),
      Tx("d3", <<In("C", 1)>>, <<Out("D", 1)>>, 0),
      Tx("d4", <<In("D", 2)>>, <<Out("E", 1)>>, 1)>>

\* change, zero-value and address-less outputs, an address-less input, an
\* inbound-only transaction, a transaction without fee, two payments to B
NoisyLedger ==
    <<Tx("n1", <<In("D", 5)>>, <<Out("A", 5)>>, 0),
      Tx("n2", <<[prev_out |-> [value |-> 1]], In("A", 5)>>,
         <<Out("A", 1), Out("B", 0), Out("C", 2), [value |-> 1], Out("", 1), Out("B", 1)>>, 0),
      [hash |-> "n3", inputs |-> <<In("A", 3), In("C", 1)>>, out |-> <<Out("B", 2)>>],
      Tx("n4", <<In("B", 3)>>, <<Out("A", 1), Out("C", 1)>>, 1)>>

Ledgers == GraphLedgers \cup {StarLedger, DiamondLedger, NoisyLedger}

\* ---- the responses of the remote service for an address
Responses(a) ==
    {TransportError}
    \cup {[status |-> s, body |-> EmptyDict] : s \in {429, 404, 500}}
    \cup {[status |-> 200, body |-> b] : b \in {SnapshotOf(ledger, a), EmptyDict}}

StatusOf(resp) == IF IsTransportError(resp) THEN -1 ELSE resp.status

\* ---- helpers of recursive_trace
Top == stack[Len(stack)]

Front(s) == SubSeq(s, 1, Len(s) - 1)

\* a bug: the visited set is not consulted
ShouldSkip_DepthOnly(start_address, visited, current_depth, maxDepth) ==
    current_depth >= maxDepth

\* a bug: the depth is not consulted
ShouldSkip_VisitedOnly(start_address, visited, current_depth, maxDepth) ==
    start_address \in visited

\* a bug: a call at depth = max_depth is not ended
ShouldSkip_StrictDepth(start_address, visited, current_depth, maxDepth) ==
    start_address \in visited \/ current_depth > maxDepth

\* line 181: the branch ends at once
ShouldSkip(start_address, visited, current_depth, maxDepth) ==
    start_address \in visited \/ current_depth >= maxDepth

\* line 185: visited.add(start_address)
MarkVisited(visited, start_address) == visited \cup {start_address}

\* a bug: the child is given the caller's own set object
CopyVisited_Alias(h, ref) == [heap |-> h, ref |-> ref]

\* line 246: visited.copy() makes a new set object for the child
CopyVisited(h, ref) == [heap |-> Append(h, h[ref]), ref |-> Len(h) + 1]

\* the set object of a frame dies with the frame, unless the caller holds it too
ReleaseVisited(h, stk) ==
    IF Len(stk) > 1 /\ stk[Len(stk) - 1].visited = stk[Len(stk)].visited
    THEN h ELSE Front(h)

\* line 236: the volume sent to addr, in satoshis
RECURSIVE total_value(_, _)
total_value(transactions, addr) ==
    IF transactions = <<>> THEN 0
    ELSE (IF Head(transactions).to_address = addr
          THEN Head(transactions).value_btc[1] ELSE 0)
         + total_value(Tail(transactions), addr)

Take(s, n) == SubSeq(s, 1, IF Len(s) < n THEN Len(s) ELSE n)

\* a bug: every destination is followed
SignificantAddresses_All(outgoing_addresses, transactions) ==
    {order \in [1..Cardinality(outgoing_addresses) -> outgoing_addresses] :
        /\ \A i, j \in DOMAIN order : i # j => order[i] # order[j]
        /\ \A i, j \in DOMAIN order :
              i < j => total_value(transactions, order[i])
                          >= total_value(transactions, order[j])}

\* a bug: three destinations are followed, in no order of volume
SignificantAddresses_Unsorted(outgoing_addresses, transactions) ==
    {Take(order, TopK) :
        order \in {o \in [1..Cardinality(outgoing_addresses) -> outgoing_addresses] :
                      \A i, j \in DOMAIN o : i # j => o[i] # o[j]}}

\* lines 234-240: the destinations in descending order of volume, the first 3.
\* sorted() is stable and outgoing_addresses is a set of strings, whose
\* iteration order changes from run to run: every order of the ties can result.
SignificantAddresses(outgoing_addresses, transactions) ==
    {Take(order, TopK) :
        order \in {o \in [1..Cardinality(outgoing_addresses) -> outgoing_addresses] :
                      /\ \A i, j \in DOMAIN o : i # j => o[i] # o[j]
                      /\ \A i, j \in DOMAIN o :
                            i < j => total_value(transactions, o[i])
                                        >= total_value(transactions, o[j])}}

\* a bug: the edges of the address replace the accumulator
Extend_Assign(accumulator, transactions) == transactions

\* line 229: all_transactions.extend(transactions)
Extend(accumulator, transactions) == accumulator \o transactions

\* line 232: the children are traced
Recurses(current_depth, maxDepth, outgoing_addresses) ==
    current_depth < maxDepth /\ outgoing_addresses # {}

\* a bug: a failed fetch ends the whole trace
AfterUnavailable_Abort(stk) == <<>>

\* lines 195-197: what is left of the call stack when the fetch gave nothing
AfterUnavailable(stk) == Front(stk)

\* ---- the initial states
RootFrame ==
    [start_address |-> Seed, visited |-> 1, current_depth |-> 0,
     pc |-> "enter", significant |-> <<>>]

\* analyze_wallet(seed, depth): recursive_trace(seed, max_depth = depth), with
\* a fresh visited set and a fresh accumulator (lines 175-178)
InitTrace ==
    /\ entry = "recursive_trace"
    /\ ledger \in Ledgers
    /\ max_depth \in 0..MaxDepth
    /\ max_retries = DefaultMaxRetries
    /\ stack = <<RootFrame>>
    /\ heap = <<{}>>
    /\ fpc = "idle"
    /\ faddr = None

\* get_address_info(address, 0, max_retries) called on its own
InitFetch ==
    /\ entry = "get_address_info"
    /\ ledger = StarLedger
    /\ max_depth = 0
    /\ max_retries \in 0..MaxRetries
    /\ stack = <<>>
    /\ heap = <<>>
    /\ fpc = "request"
    /\ faddr \in {"A", "E"}

NoClassify ==
    /\ address_data = PyNone
    /\ target_address = None
    /\ classified = PyNone
    /\ tx_index = -1

NoFlow ==
    /\ flow_pc = "off"
    /\ initial_address = None
    /\ flow_data = PyNone
    /\ flow_result = PyNone
    /\ exported = FALSE
    /\ failed = {}

Init ==
    /\ InitTrace \/ InitFetch
    /\ NoClassify
    /\ NoFlow
    /\ all_transactions = <<>>
    /\ retry_count = 0
    /\ fresult = PyNone
    /\ responses = <<>>
    /\ lastEvent = "none"
    /\ backToBack = FALSE
    /\ fetchLog = <<>>
    /\ fetched = <<>>
    /\ done = FALSE
    /\ returned = PyNone
    /\ csv_rows = PyNone

\* ---- the steps
\* recursive_trace returns all_transactions to its caller (lines 182, 197, 248)
ReturnTo(stk, h) ==
    /\ stack' = Front(stk)
    /\ heap' = ReleaseVisited(h, stk)
    /\ done' = (Len(stk) = 1)
    /\ returned' = IF Len(stk) = 1 THEN [value |-> all_transactions'] ELSE returned

\* lines 180-182: the address is in the branch's visited set, or the depth is used up
SkipBranch ==
    /\ entry = "recursive_trace" /\ ~done /\ fpc = "idle"
    /\ stack # <<>> /\ Top.pc = "enter"
    /\ ShouldSkip(Top.start_address, heap[Top.visited], Top.current_depth, max_depth)
    /\ all_transactions' = all_transactions
    /\ ReturnTo(stack, heap)
    /\ UNCHANGED <<csv_rows, fetched, entry, ledger, max_depth, max_retries, fpc, faddr, retry_count, fresult,
                   responses, lastEvent, backToBack, fetchLog>>
    /\ UNCHANGED <<clsVars, flowVars>>

\* lines 184-192: mark the address, go one level down, call get_address_info
Visit ==
    /\ entry = "recursive_trace" /\ ~done /\ fpc = "idle"
    /\ stack # <<>> /\ Top.pc = "enter"
    /\ ~ShouldSkip(Top.start_address, heap[Top.visited], Top.current_depth, max_depth)
    /\ heap' = [heap EXCEPT ![Top.visited] = MarkVisited(@, Top.start_address)]
    /\ stack' = [stack EXCEPT ![Len(stack)] =
                    [@ EXCEPT !.current_depth = @ + 1, !.pc = "fetch"]]
    /\ fpc' = "request"
    /\ faddr' = Top.start_address
    /\ retry_count' = 0
    /\ responses' = <<>>
    /\ fetchLog' = Append(fetchLog, Top.start_address)
    /\ UNCHANGED <<csv_rows, fetched, entry, ledger, max_depth, max_retries, all_transactions, fresult,
                   lastEvent, backToBack, done, returned>>
    /\ UNCHANGED <<clsVars, flowVars>>

\* lines 46-73: one requests.get of get_address_info and what follows it, up
\* to the next request or to the return
Request ==
    /\ fpc = "request"
    /\ \E resp \in Responses(faddr) :
          LET after == AfterResponse(resp, retry_count, max_retries)
          IN /\ responses' = Append(responses, StatusOf(resp))
             /\ backToBack' = (backToBack \/ lastEvent = "request")
             /\ lastEvent' = IF after.slept THEN "wait" ELSE "request"
             /\ IF after.kind = "retry"
                THEN /\ retry_count' = retry_count + 1
                     /\ UNCHANGED <<fpc, fresult>>
                ELSE /\ fpc' = "returned"
                     /\ fresult' = after.result
                     /\ UNCHANGED retry_count
    /\ UNCHANGED <<csv_rows, fetched, entry, ledger, max_depth, max_retries, stack, heap, all_transactions,
                   faddr, fetchLog, done, returned>>
    /\ UNCHANGED <<clsVars, flowVars>>

\* get_address_info was called on its own: its caller has the result
FetchDone ==
    /\ entry = "get_address_info" /\ ~done /\ fpc = "returned"
    /\ done' = TRUE
    /\ returned' = [value |-> fresult]
    /\ UNCHANGED <<csv_rows, fetched, entry, ledger, max_depth, max_retries, stack, heap, all_transactions,
                   fpc, faddr, retry_count, fresult, responses, lastEvent, backToBack,
                   fetchLog>>
    /\ UNCHANGED <<clsVars, flowVars>>

\* lines 195-197: no data for the address, the branch ends
Unavailable ==
    /\ entry = "recursive_trace" /\ ~done /\ fpc = "returned"
    /\ Top.pc = "fetch"
    /\ Falsy(fresult)
    /\ all_transactions' = all_transactions
    /\ stack' = AfterUnavailable(stack)
    /\ heap' = ReleaseVisited(heap, stack)
    /\ done' = (stack' = <<>>)
    /\ returned' = IF stack' = <<>> THEN [value |-> all_transactions] ELSE returned
    /\ fpc' = "idle"
    /\ UNCHANGED <<csv_rows, fetched, entry, ledger, max_depth, max_retries, faddr, retry_count, fresult,
                   responses, lastEvent, backToBack, fetchLog>>
    /\ UNCHANGED <<clsVars, flowVars>>

\* lines 199-248 with data: classify, append the edges to the accumulator,
\* pick the destinations to follow; with none to follow, return
Expand ==
    /\ entry = "recursive_trace" /\ ~done /\ fpc = "returned"
    /\ Top.pc = "fetch"
    /\ ~Falsy(fresult)
    /\ LET r == analyze_transactions(fresult, Top.start_address)
       IN /\ all_transactions' = Extend(all_transactions, r.transaction_details)
          /\ fetched' = Append(fetched, Top.start_address)
          /\ IF Recurses(Top.current_depth, max_depth, r.outgoing_addresses)
             THEN /\ \E sig \in SignificantAddresses(r.outgoing_addresses,
                                                     r.transaction_details) :
                        stack' = [stack EXCEPT ![Len(stack)] =
                                     [@ EXCEPT !.pc = "loop", !.significant = sig]]
                  /\ UNCHANGED <<heap, done, returned>>
             ELSE ReturnTo(stack, heap)
    /\ fpc' = "idle"
    /\ UNCHANGED <<csv_rows, entry, ledger, max_depth, max_retries, faddr, retry_count, fresult,
                   responses, lastEvent, backToBack, fetchLog>>
    /\ UNCHANGED <<clsVars, flowVars>>

\* lines 243-246: the call of recursive_trace for the next destination
Recurse ==
    /\ entry = "recursive_trace" /\ ~done /\ fpc = "idle"
    /\ stack # <<>> /\ Top.pc = "loop" /\ Top.significant # <<>>
    /\ LET c == CopyVisited(heap, Top.visited)
       IN /\ heap' = c.heap
          /\ stack' = Append(
                [stack EXCEPT ![Len(stack)] = [@ EXCEPT !.significant = Tail(@)]],
                [start_address |-> Head(Top.significant), visited |-> c.ref,
                 current_depth |-> Top.current_depth, pc |-> "enter",
                 significant |-> <<>>])
    /\ UNCHANGED <<csv_rows, fetched, entry, ledger, max_depth, max_retries, all_transactions, fpc, faddr,
                   retry_count, fresult, responses, lastEvent, backToBack, fetchLog,
                   done, returned>>
    /\ UNCHANGED <<clsVars, flowVars>>

\* line 248: every destination was traced
LoopDone ==
    /\ entry = "recursive_trace" /\ ~done /\ fpc = "idle"
    /\ stack # <<>> /\ Top.pc = "loop" /\ Top.significant = <<>>
    /\ all_transactions' = all_transactions
    /\ ReturnTo(stack, heap)
    /\ UNCHANGED <<csv_rows, fetched, entry, ledger, max_depth, max_retries, fpc, faddr, retry_count, fresult,
                   responses, lastEvent, backToBack, fetchLog>>
    /\ UNCHANGED <<clsVars, flowVars>>

\* line 274: writer.writerow(tx) writes the values of fieldnames, in that order
CsvRow(tx) ==
    <<tx.tx_hash, tx.timestamp, tx.from_address, tx.to_address, tx.value_btc,
      tx.value_satoshis, tx.tx_fee>>

\* lines 260-280: nothing is written for an empty list, or when the file
\* cannot be opened (IOError); otherwise one row per element, in list order
save_results(transactions, io_ok) ==
    IF transactions = <<>> \/ ~io_ok
    THEN [written |-> FALSE, rows |-> <<>>]
    ELSE [written |-> TRUE, rows |-> [i \in DOMAIN transactions |-> CsvRow(transactions[i])]]

\* analyze_wallet, line 310: save_results(all_transactions, output_file)
SaveResults ==
    /\ entry = "recursive_trace" /\ done /\ csv_rows = PyNone
    /\ \E io_ok \in BOOLEAN : csv_rows' = save_results(returned.value, io_ok)
    /\ UNCHANGED <<fetched, entry, ledger, max_depth, max_retries, stack, heap,
                   all_transactions, fpc, faddr, retry_count, fresult, responses,
                   lastEvent, backToBack, fetchLog, done, returned>>
    /\ UNCHANGED <<clsVars, flowVars>>

Next ==
    \/ SkipBranch
    \/ Visit
    \/ Request
    \/ FetchDone
    \/ Unavailable
    \/ Expand
    \/ Recurse
    \/ LoopDone
    \/ SaveResults

Spec == Init /\ [][Next]_vars

\* recursive_trace and get_address_info are sequential code: a step that can
\* be taken is taken
FairSpec == Spec /\ WF_vars(Next)

\* ------------------------------- analyze_transactions called on its own
MaxOuts == 2

\* an output that passes the filter (two destinations), a change output, a
\* zero-value output, an output without address, an output with an empty address
OutputChoices ==
    {Out("B", 1), Out("C", 2), Out("A", 1), Out("B", 0), [value |-> 1], Out("", 1)}

OutputSeqs == UNION {[1..n -> OutputChoices] : n \in 0..MaxOuts}

\* no input, a spend of A, a spend of B, an input without address, an input
\* without previous output, A as the second input
InputChoices ==
    {<<>>, <<In("A", 1)>>, <<In("B", 1)>>, <<[prev_out |-> [value |-> 1]]>>,
     <<EmptyDict>>, <<In("B", 1), In("A", 1)>>}

\* a transaction without its hash: every list of outputs behind a spend of A,
\* and every list of inputs before two outputs that pass the filter
TxChoices ==
    {[inputs |-> <<In("A", 1)>>, out |-> outs] : outs \in OutputSeqs}
    \cup {[inputs |-> ins, out |-> outs] :
             ins \in InputChoices, outs \in {<<Out("B", 1)>>, <<Out("C", 2), Out("B", 1)>>}}

\* the first transaction has a fee, the second has none
TxSeqs ==
    {<<>>}
    \cup {<<[hash |-> "t1", fee |-> 2] @@ t>> : t \in TxChoices}
    \cup {<<[hash |-> "t1", fee |-> 2] @@ t, [hash |-> "t2"] @@ u>> :
             t \in TxChoices, u \in TxChoices}

\* a response with no data, an empty one, one without transaction list, and
\* the histories of at most two transactions
Snapshots == {PyNone, EmptyDict, [n_tx |-> 0]} \cup {[txs |-> txs] : txs \in TxSeqs}

\* no call of recursive_trace or get_address_info is under way
NoTrace ==
    /\ max_depth = 0
    /\ max_retries = DefaultMaxRetries
    /\ stack = <<>>
    /\ heap = <<>>
    /\ all_transactions = <<>>
    /\ fpc = "idle"
    /\ faddr = None
    /\ retry_count = 0
    /\ fresult = PyNone
    /\ responses = <<>>
    /\ lastEvent = "none"
    /\ backToBack = FALSE
    /\ fetchLog = <<>>
    /\ fetched = <<>>
    /\ done = FALSE
    /\ returned = PyNone
    /\ csv_rows = PyNone

InitClassify ==
    /\ entry = "analyze_transactions"
    /\ address_data \in Snapshots
    /\ target_address \in {"A", "B"}
    /\ classified = PyNone
    /\ tx_index = -1
    /\ ledger = <<>>
    /\ NoTrace
    /\ NoFlow

\* lines 98-148
Classify ==
    /\ entry = "analyze_transactions" /\ ~done
    /\ classified' = IF Raises(address_data, target_address) THEN AttributeError
                      ELSE analyze_transactions(address_data, target_address)
    /\ done' = TRUE
    /\ UNCHANGED <<csv_rows, fetched, entry, ledger, max_depth, max_retries, stack, heap, all_transactions,
                   fpc, faddr, retry_count, fresult, responses, lastEvent, backToBack,
                   fetchLog, returned, address_data, target_address, tx_index>>
    /\ UNCHANGED flowVars

NextClassify == Classify

SpecClassify == InitClassify /\ [][NextClassify]_vars

\* ---- analyze_transactions on snapshots with fields missing
\* no input, a spend of A, an input without previous output, a previous
\* output without address, a previous output that is null (alone, and behind
\* a spend of A)
MalformedInputs ==
    {<<>>, <<In("A", 1)>>, <<EmptyDict, In("A", 1)>>,
     <<[prev_out |-> EmptyDict], In("A", 1)>>, <<[prev_out |-> PyNone]>>,
     <<In("A", 1), [prev_out |-> PyNone]>>}

\* no output, a payment to B, outputs without address, without anything, and
\* without value
MalformedOutputs ==
    {<<>>, <<Out("B", 1)>>, <<[value |-> 1], EmptyDict, Out("C", 2)>>, <<[addr |-> "B"]>>}

TxFields == {"hash", "time", "fee", "inputs", "out"}

\* a transaction with every field, cut down to every subset of its fields
MalformedTxs ==
    {[k \in K |-> [hash |-> "m", time |-> 1, fee |-> 1, inputs |-> ins, out |-> outs][k]] :
        K \in SUBSET TxFields, ins \in MalformedInputs, outs \in MalformedOutputs}

\* no data, an empty body, a body without transaction list, an empty list,
\* one transaction, one transaction before a well-formed spend of A
MalformedSnapshots ==
    {PyNone, EmptyDict, [n_tx |-> 0], [txs |-> <<>>]}
    \cup {[txs |-> <<t>>] : t \in MalformedTxs}
    \cup {[txs |-> <<t, Tx("w", <<In("A", 1)>>, <<Out("B", 1)>>, 1)>>] : t \in MalformedTxs}

InitMalformed ==
    /\ entry = "analyze_transactions"
    /\ address_data \in MalformedSnapshots
    /\ target_address \in {"A", "B"}
    /\ classified = PyNone
    /\ tx_index = -1
    /\ ledger = <<>>
    /\ NoTrace
    /\ NoFlow

SpecMalformed == InitMalformed /\ [][NextClassify]_vars

\* ---------------------------------------------- grafo_transacciones.py
\* Amounts are exact rationals of satoshis, <<numerator, denominator>> in
\* lowest terms (the code computes them in floating point, in BTC).
RECURSIVE GCD(_, _)
GCD(a, b) == IF b = 0 THEN a ELSE GCD(b, a % b)

Rat(n, d) == LET g == GCD(n, d) IN <<n \div g, d \div g>>

RAdd(a, b) == Rat(a[1] * b[2] + b[1] * a[2], a[2] * b[2])

RGreater(a, b) == a[1] * b[2] > b[1] * a[2]

\* a python dict is the sequence of its items [k, v] in insertion order
DictKeys(d) == {d[i].k : i \in DOMAIN d}

DictGet(d, key) == d[CHOOSE i \in DOMAIN d : d[i].k = key].v

\* defaultdict(float): d[key] += amount
DictAdd(d, key, amount) ==
    IF key \in DictKeys(d)
    THEN [i \in DOMAIN d |->
             IF d[i].k = key THEN [k |-> key, v |-> RAdd(d[i].v, amount)] ELSE d[i]]
    ELSE Append(d, [k |-> key, v |-> amount])

\* lines 49-53: what the address spends in the transaction, in satoshis
RECURSIVE total_spending(_, _)
total_spending(inputs, address) ==
    IF inputs = <<>> THEN 0
    ELSE LET prev_out == Get(Head(inputs), "prev_out", EmptyDict)
         IN (IF Get(prev_out, "addr", None) = address
             THEN Get(prev_out, "value", 0) ELSE 0)
            + total_spending(Tail(inputs), address)

\* lines 59-68: the outputs to other addresses
RECURSIVE outputs_to_others(_, _)
outputs_to_others(outs, address) ==
    IF outs = <<>> THEN <<>>
    ELSE LET dest_addr == Get(Head(outs), "addr", None)
             value == Get(Head(outs), "value", 0)
         IN (IF TruthyStr(dest_addr) /\ dest_addr # address /\ value > 0
             THEN <<[address |-> dest_addr, value |-> value]>> ELSE <<>>)
            \o outputs_to_others(Tail(outs), address)

\* line 74: max(outputs_to_others, key = value): the first of the largest
main_output(outs) ==
    outs[CHOOSE i \in DOMAIN outs :
            /\ \A j \in DOMAIN outs : outs[j].value <= outs[i].value
            /\ \A j \in DOMAIN outs : j < i => outs[j].value < outs[i].value]

\* a bug: the threshold is 95% of the spending
IsDominant_NinetyFive(value, spending) == 100 * value > 95 * spending

\* line 77: main_output['value'] > total_spending * 0.9
IsDominant(value, spending) == 10 * value > 9 * spending

\* a bug: the shares are taken of the first output's value, not of the sum
SumValues_First(outs) == IF outs = <<>> THEN 0 ELSE Head(outs).value

RECURSIVE SumValues(_)
SumValues(outs) == IF outs = <<>> THEN 0 ELSE Head(outs).value + SumValues(Tail(outs))

\* a bug: an output's own value is attributed, not its share of the spending
RECURSIVE Distribute_OwnValue(_, _, _, _)
Distribute_OwnValue(outs, spending, total_to_others, outgoing) ==
    IF outs = <<>> THEN outgoing
    ELSE Distribute_OwnValue(Tail(outs), spending, total_to_others,
             DictAdd(outgoing, Head(outs).address, Rat(Head(outs).value, 1)))

\* lines 82-86: the proportional distribution
RECURSIVE Distribute(_, _, _, _)
Distribute(outs, spending, total_to_others, outgoing) ==
    IF outs = <<>> THEN outgoing
    ELSE Distribute(Tail(outs), spending, total_to_others,
             DictAdd(outgoing, Head(outs).address,
                     Rat(spending * Head(outs).value, total_to_others)))

\* lines 45-89: the loop over the transactions
RECURSIVE OutgoingLoop(_, _, _)
OutgoingLoop(txs, address, outgoing) ==
    IF txs = <<>> THEN outgoing
    ELSE LET tx == Head(txs)
             spending == total_spending(Get(tx, "inputs", <<>>), address)
             others == outputs_to_others(Get(tx, "out", <<>>), address)
         IN OutgoingLoop(Tail(txs), address,
                IF spending = 0 \/ others = <<>> THEN outgoing
                ELSE IF IsDominant(main_output(others).value, spending)
                     THEN DictAdd(outgoing, main_output(others).address, Rat(spending, 1))
                     ELSE Distribute(others, spending, SumValues(others), outgoing))

\* a request of the aggregator fails: requests.get raises, or raise_for_status
\* does (429 included), or the body is no object; all end in `except Exception`
QueryFails(resp) ==
    IsTransportError(resp) \/ RaisesForStatus(resp.status) \/ resp.body = PyNone

\* lines 26-99
get_outgoing_transactions(resp, address) ==
    IF QueryFails(resp) THEN <<>>
    ELSE OutgoingLoop(Get(resp.body, "txs", <<>>), address, <<>>)

\* lines 123-126: what the address receives in the transaction, in satoshis
RECURSIVE amount_received(_, _)
amount_received(outs, address) ==
    IF outs = <<>> THEN 0
    ELSE (IF Get(Head(outs), "addr", None) = address
          THEN Get(Head(outs), "value", 0) ELSE 0)
         + amount_received(Tail(outs), address)

\* a bug: the address counts as a source of what it receives
unique_sources_Self(inputs, address) ==
    {a \in {Get(Get(inputs[i], "prev_out", EmptyDict), "addr", None) : i \in DOMAIN inputs} :
        TruthyStr(a)}

\* lines 133-142: the unique sources of the transaction other than the address
unique_sources(inputs, address) ==
    {a \in {Get(Get(inputs[i], "prev_out", EmptyDict), "addr", None) : i \in DOMAIN inputs} :
        TruthyStr(a) /\ a # address}

\* lines 121-146: the loop over the transactions; incoming is a mapping whose
\* order nothing reads (list(set(sources)) has no fixed order)
RECURSIVE IncomingLoop(_, _, _)
IncomingLoop(txs, address, incoming) ==
    IF txs = <<>> THEN incoming
    ELSE LET tx == Head(txs)
             received == amount_received(Get(tx, "out", <<>>), address)
             sources == unique_sources(Get(tx, "inputs", <<>>), address)
         IN IncomingLoop(Tail(txs), address,
                IF received = 0 \/ sources = {} THEN incoming
                ELSE [a \in DOMAIN incoming \cup sources |->
                         IF a \notin sources THEN incoming[a]
                         ELSE RAdd(IF a \in DOMAIN incoming THEN incoming[a] ELSE <<0, 1>>,
                                   Rat(received, Cardinality(sources)))])

\* lines 104-156
get_incoming_transactions(resp, address) ==
    IF QueryFails(resp) THEN EmptyDict
    ELSE IncomingLoop(Get(resp.body, "txs", <<>>), address, EmptyDict)

\* ---- get_outgoing_transactions and get_incoming_transactions called on
\* their own, for S and for X. The amounts are satoshis: 20 is spent by S.
\* S alone, S in two inputs beside P, P alone, S spending 10, X alone, an
\* input without address
AggInputChoices ==
    {<<In("S", 20)>>, <<In("S", 10), In("P", 5), In("S", 10)>>, <<In("P", 5)>>,
     <<In("S", 10)>>, <<In("X", 9)>>, <<[prev_out |-> [value |-> 1]]>>}

\* 95%, 90%, 60%, 45% of 20 for X; one destination twice; change; one output;
\* two outputs above the spending; equal outputs; no output to another address
AggOutputChoices ==
    {<<Out("X", 19), Out("Y", 1)>>, <<Out("X", 18), Out("Y", 2)>>,
     <<Out("X", 12), Out("Y", 8)>>, <<Out("X", 9), Out("Y", 1)>>,
     <<Out("Y", 1), Out("X", 9)>>, <<Out("X", 6), Out("Y", 8), Out("X", 6)>>,
     <<Out("X", 18), Out("S", 2)>>, <<Out("X", 18)>>,
     <<Out("X", 24), Out("Y", 25)>>, <<Out("X", 5), Out("Y", 5)>>,
     <<Out("S", 20)>>, <<Out("X", 0), [value |-> 3], Out("", 2)>>, <<>>}

AggTxChoices ==
    {[hash |-> "g", inputs |-> ins, out |-> outs] :
        ins \in AggInputChoices, outs \in AggOutputChoices}

\* a body without transaction list, and the histories of at most two transactions
AggSnapshots ==
    {EmptyDict, [txs |-> <<>>]}
    \cup {[txs |-> <<t>>] : t \in AggTxChoices}
    \cup {[txs |-> <<t, u>>] : t \in AggTxChoices, u \in AggTxChoices}

AggEntries == {"get_outgoing_transactions", "get_incoming_transactions"}

\* the empty defaultdict(float) of lines 41 and 119
EmptyAggregate == IF entry = "get_outgoing_transactions" THEN <<>> ELSE EmptyDict

\* data.get('txs', [])
AggTxs == Get(address_data, "txs", <<>>)

InitAggregate ==
    /\ entry \in AggEntries
    /\ address_data \in AggSnapshots
    /\ target_address = IF entry = "get_outgoing_transactions" THEN "S" ELSE "X"
    /\ classified = PyNone
    /\ tx_index = -1
    /\ ledger = <<>>
    /\ NoTrace
    /\ NoFlow

\* a bug: the pause is taken whatever the response
AggSleeps_Always(resp) == TRUE

\* lines 36-38 and 114-116: time.sleep(10) is reached when neither
\* requests.get nor raise_for_status raised
AggSleeps(resp) == ~IsTransportError(resp) /\ ~RaisesForStatus(resp.status)

\* what the service may answer the one request of the aggregator's functions:
\* no answer, throttling, a server error, a body that is no JSON object, the data
AggResponses ==
    {TransportError, [status |-> 429, body |-> EmptyDict],
     [status |-> 500, body |-> EmptyDict], [status |-> 200, body |-> PyNone],
     [status |-> 200, body |-> address_data]}

\* lines 35-41 and 113-119: the request; any failure returns {} (lines 97-99, 154-156)
AggRequest ==
    /\ entry \in AggEntries /\ ~done /\ tx_index = -1
    /\ \E resp \in AggResponses :
          /\ responses' = Append(responses, StatusOf(resp))
          /\ lastEvent' = IF AggSleeps(resp) THEN "wait" ELSE "request"
          /\ IF QueryFails(resp)
             THEN /\ done' = TRUE
                  /\ returned' = [value |-> EmptyAggregate]
                  /\ UNCHANGED <<classified, tx_index>>
             ELSE /\ classified' = EmptyAggregate
                  /\ tx_index' = 0
                  /\ UNCHANGED <<done, returned>>
    /\ UNCHANGED <<csv_rows, fetched, entry, ledger, max_depth, max_retries, stack, heap,
                   all_transactions, fpc, faddr, retry_count, fresult, backToBack,
                   fetchLog, address_data, target_address>>
    /\ UNCHANGED flowVars

\* lines 44-89: one turn of the loop of get_outgoing_transactions
OutgoingTx ==
    /\ entry = "get_outgoing_transactions" /\ ~done
    /\ tx_index >= 0 /\ tx_index < Len(AggTxs)
    /\ classified' = OutgoingLoop(<<AggTxs[tx_index + 1]>>, target_address, classified)
    /\ tx_index' = tx_index + 1
    /\ UNCHANGED <<traceVars, flowVars, address_data, target_address>>

\* lines 121-146: one turn of the loop of get_incoming_transactions
IncomingTx ==
    /\ entry = "get_incoming_transactions" /\ ~done
    /\ tx_index >= 0 /\ tx_index < Len(AggTxs)
    /\ classified' = IncomingLoop(<<AggTxs[tx_index + 1]>>, target_address, classified)
    /\ tx_index' = tx_index + 1
    /\ UNCHANGED <<traceVars, flowVars, address_data, target_address>>

\* lines 95 and 152: return dict(outgoing), return dict(incoming)
AggReturn ==
    /\ entry \in AggEntries /\ ~done
    /\ tx_index = Len(AggTxs)
    /\ done' = TRUE
    /\ returned' = [value |-> classified]
    /\ UNCHANGED <<csv_rows, fetched, entry, ledger, max_depth, max_retries, stack, heap,
                   all_transactions, fpc, faddr, retry_count, fresult, responses,
                   lastEvent, backToBack, fetchLog>>
    /\ UNCHANGED <<clsVars, flowVars>>

NextAggregate ==
    \/ AggRequest
    \/ OutgoingTx
    \/ IncomingTx
    \/ AggReturn

SpecAggregate == InitAggregate /\ [][NextAggregate]_vars

\* a bug: the first destination is taken, whatever its amount
MaxKey_First(d) == d[1].k

\* line 204: max(outgoing_from_initial, key = outgoing_from_initial.get):
\* the first key, in insertion order, of the largest amount
MaxKey(d) ==
    d[CHOOSE i \in DOMAIN d :
         /\ \A j \in DOMAIN d : ~RGreater(d[j].v, d[i].v)
         /\ \A j \in DOMAIN d : j < i => RGreater(d[i].v, d[j].v)].k

\* lines 224-225
other_sources(incoming, initial) ==
    [a \in DOMAIN incoming \ {initial} |-> incoming[a]]

\* ---- the ledgers of the aggregator: S pays a to X and b to Y out of 10;
\* P and Q pay X and Y; X and Y pay D and E
SeedAmounts == 0..10

FlowLedger(a, b) ==
    <<Tx("f1", <<In("S", 10)>>, <<Out("X", a), Out("Y", b), Out("S", 1)>>, 1),
      Tx("f2", <<In("P", 7), In("Q", 1), In("P", 2)>>, <<Out("Y", 8), Out("X", 2)>>, 0),
      Tx("f3", <<In("Y", 9)>>, <<Out("D", 6), Out("E", 3)>>, 0),
      Tx("f4", <<In("X", 5), In("S", 5)>>, <<Out("D", 10)>>, 0)>>

FlowLedgers == {FlowLedger(a, b) : a \in SeedAmounts, b \in SeedAmounts}

\* the aggregator's requests have no retry: a 429 is an HTTP error like any other
FlowResponses(a) ==
    {TransportError, [status |-> 429, body |-> EmptyDict], [status |-> 500, body |-> EmptyDict],
     [status |-> 200, body |-> SnapshotOf(ledger, a)]}

InitFlow ==
    /\ entry = "analyze_ransomware_flow"
    /\ ledger \in FlowLedgers
    /\ initial_address = "S"
    /\ flow_pc = "level0"
    /\ flow_data = [initial |-> "S", initial_to_accumulator |-> <<0, 1>>,
                    accumulator |-> None, other_sources |-> EmptyDict,
                    destinations |-> <<>>, all_transactions |-> <<>>]
    /\ flow_result = PyNone
    /\ exported = FALSE
    /\ failed = {}
    /\ NoTrace
    /\ NoClassify

\* lines 197-214: the outgoing transfers of the seed; none, return None;
\* else the destination of the largest amount is the accumulator
Level0 ==
    /\ flow_pc = "level0"
    /\ \E resp \in FlowResponses(initial_address) :
          LET outgoing_from_initial == get_outgoing_transactions(resp, initial_address)
          IN /\ failed' = IF QueryFails(resp) THEN failed \cup {0} ELSE failed
             /\ IF outgoing_from_initial = <<>>
                THEN /\ flow_pc' = "returned"
                     /\ flow_result' = PyNone
                     /\ UNCHANGED flow_data
                ELSE /\ flow_pc' = "level1"
                     /\ flow_data' =
                           [flow_data EXCEPT
                               !.accumulator = MaxKey(outgoing_from_initial),
                               !.initial_to_accumulator =
                                   DictGet(outgoing_from_initial,
                                           MaxKey(outgoing_from_initial))]
                     /\ UNCHANGED flow_result
    /\ UNCHANGED <<initial_address, exported, traceVars, clsVars>>

\* lines 221-245: the sources of the accumulator other than the seed
Level1 ==
    /\ flow_pc = "level1"
    /\ \E resp \in FlowResponses(flow_data.accumulator) :
          /\ failed' = IF QueryFails(resp) THEN failed \cup {1} ELSE failed
          /\ flow_data' =
                [flow_data EXCEPT !.other_sources =
                    other_sources(get_incoming_transactions(resp, flow_data.accumulator),
                                  initial_address)]
    /\ flow_pc' = "level2"
    /\ UNCHANGED <<initial_address, flow_result, exported, traceVars, clsVars>>

\* lines 252-282: the destinations of the accumulator; flow_data is returned
Level2 ==
    /\ flow_pc = "level2"
    /\ \E resp \in FlowResponses(flow_data.accumulator) :
          /\ failed' = IF QueryFails(resp) THEN failed \cup {2} ELSE failed
          /\ flow_data' =
                [flow_data EXCEPT !.destinations =
                    get_outgoing_transactions(resp, flow_data.accumulator)]
    /\ flow_pc' = "returned"
    /\ flow_result' = flow_data'
    /\ UNCHANGED <<initial_address, exported, traceVars, clsVars>>

\* main, lines 546-549: a flow model is exported and drawn
ExportFlow ==
    /\ flow_pc = "returned"
    /\ flow_result # PyNone
    /\ exported' = TRUE
    /\ flow_pc' = "exit"
    /\ UNCHANGED <<initial_address, flow_data, flow_result, failed, traceVars, clsVars>>

\* main, lines 554-555: no flow model, nothing is written
NoExport ==
    /\ flow_pc = "returned"
    /\ flow_result = PyNone
    /\ flow_pc' = "exit"
    /\ UNCHANGED <<initial_address, flow_data, flow_result, exported, failed,
                   traceVars, clsVars>>

NextFlow ==
    \/ Level0
    \/ Level1
    \/ Level2
    \/ ExportFlow
    \/ NoExport

SpecFlow == InitFlow /\ [][NextFlow]_vars

\* ======================================================================
\* The claims
\* ======================================================================
InFetch == fpc \in {"request", "returned"}

AllThrottled == \A i \in DOMAIN responses : responses[i] = 429

\* C1: when every response of a call of get_address_info is a 429, the call
\* issues exactly max_retries + 1 requests (max_retries retries) and then
\* returns None; while it has not returned it has issued at most max_retries
\* requests, one per retry made.
C1_RetryBound ==
    (InFetch /\ AllThrottled) =>
        IF fpc = "returned"
        THEN /\ Len(responses) = max_retries + 1
             /\ retry_count = max_retries
             /\ fresult = PyNone
        ELSE /\ Len(responses) = retry_count
             /\ retry_count <= max_retries

\* C1 witness: max_retries = 3, four 429 in a row, None returned to the caller
C1_Witness ==
    /\ entry = "get_address_info" /\ max_retries = 3
    /\ responses = <<429, 429, 429, 429>>
    /\ retry_count = 3
    /\ done /\ returned = [value |-> PyNone]

\* C2 (as the spec states it): a call of get_address_info that has returned
\* did the mandatory wait after its last request, and no request was ever
\* issued right after another one without a wait between them.
C2_Pacing ==
    /\ fpc = "returned" => lastEvent = "wait"
    /\ ~backToBack

C4_FailureIsolation ==
    [][(entry = "recursive_trace" /\ fpc = "returned" /\ Falsy(fresult)) =>
          /\ all_transactions' = all_transactions
          /\ fetchLog' = fetchLog
          /\ stack' = Front(stack)
          /\ Len(stack) = 1 => (done' /\ returned' = [value |-> all_transactions])
          /\ Len(stack) > 1 => (~done' /\ fpc' = "idle")]_vars

EdgeHashes(edges) == [i \in DOMAIN edges |-> edges[i].tx_hash]

\* C4 witness: in the diamond at depth 2 the fetch of B failed (no edge of
\* d2), the edges of A stayed, the sibling C was traced, the trace returned
C4_Witness ==
    /\ done /\ entry = "recursive_trace"
    /\ ledger = DiamondLedger /\ max_depth = 2
    /\ fetchLog = <<"A", "B", "C">>
    /\ EdgeHashes(returned.value) = <<"d1", "d1", "d3">>

RECURSIVE GeomSum(_)
GeomSum(d) == IF d <= 0 THEN 0 ELSE 1 + 3 * GeomSum(d - 1)

\* C6: recursive_trace calls get_address_info at most 3^0 + ... + 3^(d-1)
\* times for max_depth = d, and no call has more than 3 children to trace.
C6_QueryBound ==
    entry = "recursive_trace" =>
        /\ Len(fetchLog) <= GeomSum(max_depth)
        /\ \A i \in DOMAIN stack : Len(stack[i].significant) <= 3

\* C6 witness: the bound is met at depth 2 (the seed and 3 of its 4 destinations)
C6_Witness ==
    /\ done /\ entry = "recursive_trace"
    /\ ledger = StarLedger /\ max_depth = 2
    /\ Len(fetchLog) = 4

CycleLedger == GraphLedger(Addr3, [x \in {"A", "B", "C"} |->
                   IF x = "A" THEN {"B"} ELSE IF x = "B" THEN {"A"} ELSE {}])

Count(s, a) == Cardinality({i \in DOMAIN s : s[i] = a})

\* the frames that have marked their address: the current branch
Branch == {i \in DOMAIN stack : stack[i].pc # "enter"}

\* C7: the addresses fetched along the current branch are pairwise distinct;
\* on the cycle A -> B -> A with max_depth = 5 the trace ends with A fetched
\* once and B at most once, once when A's history was obtained.
C7_CycleSafety ==
    entry = "recursive_trace" =>
        /\ \A i, j \in Branch : i # j => stack[i].start_address # stack[j].start_address
        /\ (ledger = CycleLedger /\ max_depth = 5 /\ done) =>
              /\ Count(fetchLog, "A") = 1
              /\ Count(fetchLog, "B") <= 1
              /\ all_transactions # <<>> => Count(fetchLog, "B") = 1

\* C7 witness: the cycle traced to the end, both histories obtained
C7_Witness ==
    /\ done /\ ledger = CycleLedger /\ max_depth = 5
    /\ fetchLog = <<"A", "B">>
    /\ Len(all_transactions) = 2

\* the depth of a call is at least its caller's and at most max_depth
DepthOK ==
    \A i \in DOMAIN stack :
        /\ stack[i].current_depth <= max_depth
        /\ i > 1 => stack[i].current_depth >= stack[i - 1].current_depth

\* C8: along a branch the depth never decreases and never exceeds max_depth,
\* and the function under execution eventually returns.
C8_Termination == []DepthOK /\ <>done

\* C8 witness: a trace of depth 3 that was throttled on the way has returned
C8_Witness ==
    /\ done /\ entry = "recursive_trace"
    /\ ledger = DiamondLedger /\ max_depth = 3
    /\ Len(fetchLog) = 5
    /\ responses = <<429, 429, 200>>
    /\ Len(all_transactions) = 5

\* ---- the classifier on its own (SpecClassify)
HasTxs == ~Falsy(address_data) /\ "txs" \in DOMAIN address_data

AddrOfInput(inp) ==
    IF "prev_out" \in DOMAIN inp /\ "addr" \in DOMAIN inp.prev_out
    THEN inp.prev_out.addr ELSE None

\* A is the source address of an input of tx
Spends(tx, A) == \E i \in DOMAIN tx.inputs : AddrOfInput(tx.inputs[i]) = A

\* the outputs <<t, o>> an edge is due for: output o of transaction t, which
\* A spends in, has a destination other than A and a positive value
DueOutputs ==
    {q \in UNION {{<<t, o>> : o \in DOMAIN address_data.txs[t].out} :
                     t \in DOMAIN address_data.txs} :
        LET tx == address_data.txs[q[1]]
            O == tx.out[q[2]]
        IN /\ Spends(tx, target_address)
           /\ "addr" \in DOMAIN O /\ O.addr # "" /\ O.addr # None
           /\ O.addr # target_address
           /\ O.value > 0}

\* the place of a due output in snapshot order
Rank(q) ==
    Cardinality({p \in DueOutputs : p[1] < q[1] \/ (p[1] = q[1] /\ p[2] <= q[2])})

\* C9: the classifier emits one edge per due output and no other edge, in
\* snapshot order (transaction order, then output order), each from the
\* target to the output's destination with the output's value; the set of
\* destinations it returns is the set of the to_address of its edges.
C9_OutputFilter ==
    (entry = "analyze_transactions" /\ done /\ HasTxs) =>
        LET edges == classified.transaction_details
        IN /\ Len(edges) = Cardinality(DueOutputs)
           /\ \A q \in DueOutputs :
                 LET tx == address_data.txs[q[1]]
                     e == edges[Rank(q)]
                 IN /\ e.tx_hash = tx.hash
                    /\ e.from_address = target_address
                    /\ e.to_address = tx.out[q[2]].addr
                    /\ e.value_satoshis = tx.out[q[2]].value
                    /\ e.value_btc = <<tx.out[q[2]].value, 100000000>>
           /\ classified.outgoing_addresses = {edges[i].to_address : i \in DOMAIN edges}

\* C9 witness: two spending transactions of A, a change output and a
\* zero-value output dropped, three edges in snapshot order
C9_Witness ==
    /\ entry = "analyze_transactions" /\ done /\ target_address = "A"
    /\ address_data =
          [txs |-> <<[hash |-> "t1", fee |-> 2, inputs |-> <<In("A", 1)>>,
                      out |-> <<Out("A", 1), Out("C", 2)>>],
                     [hash |-> "t2", inputs |-> <<In("A", 1)>>,
                      out |-> <<Out("B", 1), Out("B", 0)>>]>>]
    /\ EdgeHashes(classified.transaction_details) = <<"t1", "t2">>
    /\ classified.outgoing_addresses = {"B", "C"}

\* C10: a transaction none of whose inputs has the target as its source
\* yields no edge, and when the snapshot has no other transaction the
\* classifier returns no edge and no destination.
C10_InboundOnly ==
    (entry = "analyze_transactions" /\ done /\ HasTxs) =>
        LET edges == classified.transaction_details
            txs == address_data.txs
        IN /\ \A t \in DOMAIN txs :
                 ~Spends(txs[t], target_address) =>
                     \A i \in DOMAIN edges : edges[i].tx_hash # txs[t].hash
           /\ (\A t \in DOMAIN txs : ~Spends(txs[t], target_address)) =>
                 (edges = <<>> /\ classified.outgoing_addresses = {})

\* C10 witness: B pays B and C in t1 with an address-less input in t2; for
\* target A neither transaction is a spend, and nothing comes out
C10_Witness ==
    /\ entry = "analyze_transactions" /\ done /\ target_address = "A"
    /\ address_data =
          [txs |-> <<[hash |-> "t1", fee |-> 2, inputs |-> <<In("B", 1)>>,
                      out |-> <<Out("C", 2), Out("B", 1)>>],
                     [hash |-> "t2", inputs |-> <<[prev_out |-> [value |-> 1]]>>,
                      out |-> <<Out("C", 2), Out("B", 1)>>]>>]
    /\ classified = [outgoing_addresses |-> {}, transaction_details |-> <<>>]

\* ---- the aggregator (SpecFlow)
\* C5 (as the spec states it): once analyze_ransomware_flow has returned, a
\* failure of any of its three queries means that it returned no flow model
\* (None) and that nothing was exported.
C5_AbortOnFailure ==
    (flow_pc \in {"returned", "exit"} /\ failed # {}) =>
        (flow_result = PyNone /\ ~exported)

\* ---- the edges of the accumulator (Spec)
\* C11: in every state of a trace, every edge of the accumulator joins two
\* different addresses, and its from_address is an address whose fetch gave
\* data earlier in this trace.
C11_DistinctEndpoints ==
    entry = "recursive_trace" =>
        \A i \in DOMAIN all_transactions :
            /\ all_transactions[i].from_address # all_transactions[i].to_address
            /\ \E j \in DOMAIN fetched : fetched[j] = all_transactions[i].from_address

\* the edges of n2, whose first output is A's change, are in the accumulator
C11_Witness ==
    /\ entry = "recursive_trace" /\ ledger = NoisyLedger
    /\ \E i \in DOMAIN all_transactions :
          /\ all_transactions[i].tx_hash = "n2"
          /\ all_transactions[i].from_address = "A"

\* ---- the aggregator's functions on their own (SpecAggregate)
\* a turn of the loop of get_outgoing_transactions is about to be taken
OutgoingTurn ==
    /\ entry = "get_outgoing_transactions" /\ ~done
    /\ tx_index >= 0 /\ tx_index < Len(AggTxs)

\* the transaction the turn works on
TurnTx == AggTxs[tx_index + 1]

RECURSIVE SumOver(_, _)
SumOver(I, f) ==
    IF I = {} THEN 0
    ELSE LET i == CHOOSE j \in I : TRUE IN f[i] + SumOver(I \ {i}, f)

ValueOf(o) == IF "value" \in DOMAIN o THEN o.value ELSE 0

\* totalSpending: what A spends in tx
SpentBy(tx, A) ==
    SumOver({i \in DOMAIN tx.inputs : AddrOfInput(tx.inputs[i]) = A},
            [i \in DOMAIN tx.inputs |->
                IF "prev_out" \in DOMAIN tx.inputs[i]
                THEN ValueOf(tx.inputs[i].prev_out) ELSE 0])

\* the candidate outputs of tx: destination present, other than A, value > 0
Candidates(tx, A) ==
    {o \in DOMAIN tx.out :
        /\ "addr" \in DOMAIN tx.out[o] /\ tx.out[o].addr # "" /\ tx.out[o].addr # None
        /\ tx.out[o].addr # A
        /\ ValueOf(tx.out[o]) > 0}

\* the amount a dict of the aggregator holds for a destination
Amount(d, key) == IF key \in DictKeys(d) THEN DictGet(d, key) ELSE <<0, 1>>

\* the turn adds spending to the destination of output c and nothing else
AllTo(tx, c, spending) ==
    /\ DictKeys(classified') = DictKeys(classified) \cup {tx.out[c].addr}
    /\ \A d \in DictKeys(classified') :
          Amount(classified', d) =
              RAdd(Amount(classified, d),
                   IF d = tx.out[c].addr THEN <<spending, 1>> ELSE <<0, 1>>)

\* the largest candidate output of tx, the first of them in output order
Largest(tx, A) ==
    CHOOSE c \in Candidates(tx, A) :
        \A o \in Candidates(tx, A) :
            /\ tx.out[o].value <= tx.out[c].value
            /\ o < c => tx.out[o].value < tx.out[c].value

\* C12 as stated: in every turn of get_outgoing_transactions on a transaction
\* in which the address spends something, if some candidate output has a
\* value of 90% of the spending or more, exactly 90% included, the whole
\* spending goes to that output's destination and nothing to any other.
C12_AtLeastNinety ==
    [][(OutgoingTurn /\ tx_index' = tx_index + 1) =>
          LET tx == TurnTx
              spending == SpentBy(tx, target_address)
              reach == {c \in Candidates(tx, target_address) :
                           10 * tx.out[c].value >= 9 * spending}
          IN (spending > 0 /\ reach # {}) => \E c \in reach : AllTo(tx, c, spending)]_vars

\* C12 amended: in every turn of get_outgoing_transactions on a transaction in
\* which the address spends something, if the largest candidate output has a
\* value strictly above 90% of the spending, the whole spending goes to that
\* output's destination and nothing to any other.
C12_DominantOutput ==
    [][(OutgoingTurn /\ tx_index' = tx_index + 1) =>
          LET tx == TurnTx
              spending == SpentBy(tx, target_address)
          IN (/\ spending > 0
              /\ \E c \in Candidates(tx, target_address) :
                    10 * tx.out[c].value > 9 * spending)
             => AllTo(tx, Largest(tx, target_address), spending)]_vars

\* S spends 20, 19 of them to X and 1 to Y: X has the 20
C12_Witness ==
    /\ entry = "get_outgoing_transactions" /\ tx_index = 1
    /\ AggTxs[1].inputs = <<In("S", 20)>>
    /\ AggTxs[1].out = <<Out("X", 19), Out("Y", 1)>>
    /\ classified = <<[k |-> "X", v |-> <<20, 1>>]>>

\* the sum of the values of the candidate outputs of tx that pay d
PaidTo(tx, A, d) ==
    SumOver({c \in Candidates(tx, A) : tx.out[c].addr = d},
            [o \in DOMAIN tx.out |-> ValueOf(tx.out[o])])

\* C13: in every turn of get_outgoing_transactions on a transaction in which
\* the address spends something and no candidate output is dominant (none is
\* above 90% of the spending), every candidate adds to its destination the
\* spending times its value over the sum of the candidates' values, and the
\* amounts of one destination add up, over the outputs and over the turns.
C13_Proportional ==
    [][(OutgoingTurn /\ tx_index' = tx_index + 1) =>
          LET tx == TurnTx
              A == target_address
              spending == SpentBy(tx, A)
              total == SumOver(Candidates(tx, A),
                               [o \in DOMAIN tx.out |-> ValueOf(tx.out[o])])
          IN (/\ spending > 0
              /\ \A c \in Candidates(tx, A) : 10 * tx.out[c].value <= 9 * spending)
             => /\ DictKeys(classified') =
                      DictKeys(classified) \cup {tx.out[c].addr : c \in Candidates(tx, A)}
                /\ \A d \in DictKeys(classified') :
                      Amount(classified', d) =
                          RAdd(Amount(classified, d),
                               IF total = 0 THEN <<0, 1>>
                               ELSE Rat(spending * PaidTo(tx, A, d), total))]_vars

\* S spends 20 twice: 12 to X and 8 to Y, then 6 to X, 8 to Y and 6 to X
C13_Witness ==
    /\ entry = "get_outgoing_transactions" /\ tx_index = 2
    /\ AggTxs[1].inputs = <<In("S", 20)>>
    /\ AggTxs[1].out = <<Out("X", 12), Out("Y", 8)>>
    /\ AggTxs[2].inputs = <<In("S", 20)>>
    /\ AggTxs[2].out = <<Out("X", 6), Out("Y", 8), Out("X", 6)>>
    /\ classified = <<[k |-> "X", v |-> <<24, 1>>], [k |-> "Y", v |-> <<16, 1>>]>>

\* a turn of the loop of get_incoming_transactions is about to be taken
IncomingTurn ==
    /\ entry = "get_incoming_transactions" /\ ~done
    /\ tx_index >= 0 /\ tx_index < Len(AggTxs)

\* amountReceived: what the outputs of tx pay to A
ReceivedBy(tx, A) ==
    SumOver({o \in DOMAIN tx.out : "addr" \in DOMAIN tx.out[o] /\ tx.out[o].addr = A},
            [o \in DOMAIN tx.out |-> ValueOf(tx.out[o])])

\* the input-source addresses of tx other than A
SourcesOf(tx, A) == {AddrOfInput(tx.inputs[i]) : i \in DOMAIN tx.inputs} \ {None, "", A}

\* C14: in every turn of get_incoming_transactions on a transaction that pays
\* the address something, each of the n >= 1 unique sources other than the
\* address gains exactly the amount received over n, whatever its inputs are
\* worth and however many it has; with no such source nothing is attributed.
C14_EqualSplit ==
    [][(IncomingTurn /\ tx_index' = tx_index + 1) =>
          LET tx == TurnTx
              received == ReceivedBy(tx, target_address)
              sources == SourcesOf(tx, target_address)
          IN received > 0 =>
                /\ DOMAIN classified' = DOMAIN classified \cup sources
                /\ \A a \in DOMAIN classified \ sources : classified'[a] = classified[a]
                /\ \A a \in sources :
                      classified'[a] =
                          RAdd(IF a \in DOMAIN classified THEN classified[a] ELSE <<0, 1>>,
                               Rat(received, Cardinality(sources)))]_vars

\* X receives 19 from S (two inputs of 10) and P (one input of 5): 9.5 each;
\* then 18 in a transaction whose only source is X: nothing more
C14_Witness ==
    /\ entry = "get_incoming_transactions" /\ tx_index = 2
    /\ AggTxs[1].inputs = <<In("S", 10), In("P", 5), In("S", 10)>>
    /\ AggTxs[1].out = <<Out("X", 19), Out("Y", 1)>>
    /\ AggTxs[2].inputs = <<In("X", 9)>>
    /\ AggTxs[2].out = <<Out("X", 18)>>
    /\ classified = [a \in {"S", "P"} |-> <<19, 2>>]

\* ---- the flow model (SpecFlow)
\* C15: whenever analyze_ransomware_flow returns a flow model, its accumulator
\* is a destination of the seed's aggregated outgoing transfers, no destination
\* has a larger amount, initial_to_accumulator is the accumulator's amount, the
\* accumulator is not the seed, and the seed is no key of other_sources.
C15_AccumulatorSelection ==
    (entry = "analyze_ransomware_flow" /\ flow_result # PyNone) =>
        LET outgoing == get_outgoing_transactions(
                            [status |-> 200, body |-> SnapshotOf(ledger, initial_address)],
                            initial_address)
            acc == flow_result.accumulator
        IN /\ acc \in DictKeys(outgoing)
           /\ \A d \in DictKeys(outgoing) :
                 ~RGreater(DictGet(outgoing, d), DictGet(outgoing, acc))
           /\ flow_result.initial_to_accumulator = DictGet(outgoing, acc)
           /\ acc # initial_address
           /\ initial_address \notin DOMAIN flow_result.other_sources

\* S pays 2 to X and 5 to Y out of 10 (and 5 to D): Y is the accumulator, with
\* 50/7; S pays Y, and is not among Y's other sources P and Q
C15_Witness ==
    /\ entry = "analyze_ransomware_flow" /\ ledger = FlowLedger(2, 5)
    /\ flow_result # PyNone
    /\ flow_result.accumulator = "Y"
    /\ flow_result.initial_to_accumulator = <<50, 7>>
    /\ DOMAIN flow_result.other_sources = {"P", "Q"}

\* ---- the classifier on snapshots with fields missing (SpecMalformed)
\* no field of the snapshot is null: fields are present with a value, or missing
NothingNull ==
    HasTxs =>
        \A t \in DOMAIN address_data.txs :
            "inputs" \in DOMAIN address_data.txs[t] =>
                \A i \in DOMAIN address_data.txs[t].inputs :
                    "prev_out" \in DOMAIN address_data.txs[t].inputs[i] =>
                        address_data.txs[t].inputs[i].prev_out # PyNone

Expanding ==
    /\ entry = "recursive_trace" /\ ~done /\ fpc = "returned" /\ fpc' = "idle"
    /\ Top.pc = "fetch" /\ ~Falsy(fresult)

\* the edges the step appends to the accumulator
NewEdges == SubSeq(all_transactions', Len(all_transactions) + 1, Len(all_transactions'))

\* the value summed over the edges to d
SummedValue(edges, d) ==
    SumOver({i \in DOMAIN edges : edges[i].to_address = d},
            [i \in DOMAIN edges |-> edges[i].value_satoshis])

\* sig lists min(3, number of destinations) different destinations of edges
\* in descending order of summed value, and no destination left out has a
\* larger summed value than one of sig
TopThree(sig, edges) ==
    LET dests == {edges[i].to_address : i \in DOMAIN edges}
    IN /\ Len(sig) = IF Cardinality(dests) < 3 THEN Cardinality(dests) ELSE 3
       /\ \A i \in DOMAIN sig : sig[i] \in dests
       /\ \A i, j \in DOMAIN sig : i # j => sig[i] # sig[j]
       /\ \A i, j \in DOMAIN sig :
             i < j => SummedValue(edges, sig[i]) >= SummedValue(edges, sig[j])
       /\ \A d \in dests \ {sig[i] : i \in DOMAIN sig} :
             \A i \in DOMAIN sig : SummedValue(edges, sig[i]) >= SummedValue(edges, d)

\* the call of frame i was made with current_depth = i - 1 (the seed with 0);
\* the frame's own current_depth is one more once line 186 has run
CallDepths ==
    \A i \in DOMAIN stack :
        stack[i].current_depth = IF stack[i].pc = "enter" THEN i - 1 ELSE i

\* the top frame goes on to follow, one by one, the top three destinations
\* of the edges it appended
FollowsTopThree ==
    /\ Len(stack') = Len(stack)
    /\ stack'[Len(stack)].pc = "loop"
    /\ TopThree(stack'[Len(stack)].significant, NewEdges)

\* C17 as stated, the depth of an address being the depth it was called with
\* (0 for the seed): when an address at depth < maxDepth has destinations,
\* recursive_trace goes on to recurse into min(3, number of destinations) of
\* them, the largest by summed value, in descending order.
C17_AnyDepthBelowMax ==
    [][Expanding =>
          ((Len(stack) - 1 < max_depth /\ NewEdges # <<>>) => FollowsTopThree)]_vars

\* C17 amended: when an address called at depth d with d + 1 < maxDepth has
\* destinations, recursive_trace recurses into exactly min(3, number of
\* destinations) of them, the largest by summed value in descending order,
\* each called at depth d + 1 and in that order; with d + 1 = maxDepth it
\* recurses into none.
C17_TopThree ==
    /\ []CallDepths
    /\ [][Expanding =>
             IF Len(stack) < max_depth /\ NewEdges # <<>>
             THEN FollowsTopThree
             ELSE Len(stack') = Len(stack) - 1]_vars
    /\ [][(entry = "recursive_trace" /\ stack # <<>> /\ Top.pc = "loop"
              /\ fpc = "idle" /\ stack' # stack) =>
             IF Top.significant = <<>>
             THEN Len(stack') = Len(stack) - 1
             ELSE /\ Len(stack') = Len(stack) + 1
                  /\ stack'[Len(stack)].significant = Tail(Top.significant)
                  /\ stack'[Len(stack')].start_address = Head(Top.significant)
                  /\ stack'[Len(stack')].pc = "enter"
                  /\ stack'[Len(stack')].current_depth = Len(stack)]_vars

\* A pays B 3, C 2, D 1 and E 1: B, C and E were chosen, and B is being
\* called at depth 1, C and E still to come
C17_Witness ==
    /\ entry = "recursive_trace" /\ ledger = StarLedger
    /\ Len(stack) = 2
    /\ stack[1].significant = <<"C", "E">>
    /\ stack[2].start_address = "B" /\ stack[2].pc = "enter"
    /\ stack[2].current_depth = 1

\* ---- the skipped branch (Spec)
\* recursive_trace was called on an address of the branch's visited set, or
\* at a depth that is not below max_depth
Skipping ==
    /\ entry = "recursive_trace" /\ ~done /\ fpc = "idle"
    /\ stack # <<>> /\ Top.pc = "enter"
    /\ Top.start_address \in heap[Top.visited] \/ Top.current_depth >= max_depth

\* C18: the step of a call of recursive_trace on a visited address, or with
\* depth >= maxDepth, is its return: no fetch is issued, the accumulator and
\* every visited set are as they were, and the accumulator is what the
\* outermost call returns.
C18_SkippedBranch ==
    [][Skipping =>
          /\ fetchLog' = fetchLog /\ fpc' = "idle" /\ responses' = responses
          /\ all_transactions' = all_transactions
          /\ stack' = Front(stack)
          /\ DOMAIN heap' \subseteq DOMAIN heap
          /\ \A r \in DOMAIN heap' : heap'[r] = heap[r]
          /\ Len(stack) = 1 => (done' /\ returned' = [value |-> all_transactions])]_vars

\* A pays B and B pays A, max_depth 5: A and B were fetched, the call on A
\* from B has returned without a fetch, and B's set and the two edges are there
C18_Witness ==
    /\ entry = "recursive_trace" /\ ledger = CycleLedger /\ max_depth = 5
    /\ Len(stack) = 2 /\ fpc = "idle"
    /\ Top.pc = "loop" /\ Top.significant = <<>>
    /\ fetchLog = <<"A", "B">>
    /\ heap = <<{"A"}, {"A", "B"}>>
    /\ EdgeHashes(all_transactions) = <<"A", "B">>

\* ---- the visited sets of the branches (Spec)
\* the addresses on the path from the seed to frame i that were marked
PathTo(i) == {stack[j].start_address : j \in {k \in 1..i : stack[k].pc # "enter"}}

\* the edges of the accumulator that start at a
EdgesFrom(a) == {i \in DOMAIN all_transactions : all_transactions[i].from_address = a}

\* C19: the visited set of a call holds the marked addresses on its own
\* path from the seed and nothing else, so no mark of a child or of a sibling
\* branch is seen; the edges of an address are in the accumulator once per
\* fetch that gave data; and when D is chosen under both B and C, within the
\* depth limit and with data for A, B and C, D is fetched under both.
C19_BranchIsolation ==
    entry = "recursive_trace" =>
        /\ \A i \in DOMAIN stack : heap[stack[i].visited] = PathTo(i)
        /\ \A a \in {"A", "B", "C", "D", "E"} :
              Cardinality(EdgesFrom(a)) =
                  Count(fetched, a)
                  * Len(analyze_transactions(SnapshotOf(ledger, a), a).transaction_details)
        /\ (/\ ledger = DiamondLedger /\ max_depth >= 3 /\ done
            /\ \A a \in {"A", "B", "C"} : Count(fetched, a) = 1)
           => Count(fetchLog, "D") = 2

\* A pays B and C, both pay D, D pays E; max_depth 3: D is fetched under B
\* and again under C, and its edge d4 is in the accumulator twice
C19_Witness ==
    /\ entry = "recursive_trace" /\ ledger = DiamondLedger /\ max_depth = 3 /\ done
    /\ fetchLog = <<"A", "B", "D", "C", "D">>
    /\ EdgeHashes(all_transactions) = <<"d1", "d1", "d2", "d4", "d3", "d4">>

\* ---- the accumulator (Spec)
\* the edges the classifier gives for the addresses of s, one address after the other
RECURSIVE EdgesInOrder(_)
EdgesInOrder(s) ==
    IF s = <<>> THEN <<>>
    ELSE analyze_transactions(SnapshotOf(ledger, Head(s)), Head(s)).transaction_details
         \o EdgesInOrder(Tail(s))

IsPrefix(s, t) == Len(s) <= Len(t) /\ SubSeq(t, 1, Len(s)) = s

\* C20: every step leaves the accumulator as a prefix of what it becomes;
\* the accumulator is, address after address in the order of the fetches
\* that gave data, the edges of that address in classifier order; an address
\* is expanded while all its ancestors are in their loops over their
\* destinations, their edges already in; recursive_trace returns the
\* accumulator, and save_results writes it row by row in that order.
C20_AppendOnly ==
    /\ [][entry = "recursive_trace" => IsPrefix(all_transactions, all_transactions')]_vars
    /\ [](entry = "recursive_trace" =>
             /\ all_transactions = EdgesInOrder(fetched)
             /\ done => returned = [value |-> all_transactions]
             /\ (csv_rows # PyNone /\ csv_rows.written) =>
                   /\ Len(csv_rows.rows) = Len(all_transactions)
                   /\ \A i \in DOMAIN all_transactions :
                         /\ csv_rows.rows[i][1] = all_transactions[i].tx_hash
                         /\ csv_rows.rows[i][3] = all_transactions[i].from_address
                         /\ csv_rows.rows[i][4] = all_transactions[i].to_address
                         /\ csv_rows.rows[i][6] = all_transactions[i].value_satoshis)
    /\ [][Expanding =>
             /\ fetched' = Append(fetched, Top.start_address)
             /\ NewEdges = EdgesInOrder(<<Top.start_address>>)
             /\ \A i \in 1..(Len(stack) - 1) :
                   /\ stack[i].pc = "loop"
                   /\ \E j \in DOMAIN fetched : fetched[j] = stack[i].start_address]_vars

\* the diamond traced to depth 3 and exported: the rows are A's two edges,
\* B's, D's under B, C's, D's under C
C20_Witness ==
    /\ entry = "recursive_trace" /\ ledger = DiamondLedger /\ done
    /\ csv_rows # PyNone /\ csv_rows.written
    /\ fetched = <<"A", "B", "D", "C", "D">>
    /\ [i \in DOMAIN csv_rows.rows |-> csv_rows.rows[i][1]]
          = <<"d1", "d1", "d2", "d4", "d3", "d4">>

\* ---- conservation in get_outgoing_transactions (SpecAggregate)
\* the sum of the amounts of a dict of the aggregator
RECURSIVE DictTotal(_)
DictTotal(d) == IF d = <<>> THEN <<0, 1>> ELSE RAdd(Head(d).v, DictTotal(Tail(d)))

\* what the address spends in the first n transactions that have a candidate output
SpentWithCandidate(n) ==
    SumOver({t \in 1..n : Candidates(AggTxs[t], target_address) # {}},
            [t \in 1..n |-> SpentBy(AggTxs[t], target_address)])

RequestFailed == Len(responses) = 1 /\ responses[1] # 200

\* C22: a call of get_outgoing_transactions or of get_incoming_transactions
\* issues exactly one request: none before the call starts, one from then on and
\* never a second; when that request fails (no answer, 429, 500) the call is
\* over at once, having returned the empty mapping as a value, with no pause
\* taken and no further attempt counted; the same empty mapping is what a call
\* returns for an address whose data holds no transaction
C22_NoRetry ==
    entry \in AggEntries =>
        /\ Len(responses) <= 1
        /\ (tx_index >= 0 \/ done) <=> (Len(responses) = 1)
        /\ RequestFailed =>
              /\ done /\ tx_index = -1
              /\ returned = [value |-> EmptyAggregate]
              /\ lastEvent = "request"
              /\ retry_count = 0
        /\ (done /\ AggTxs = <<>>) => returned = [value |-> EmptyAggregate]

\* a throttled query about an address that has spending transactions
C22_Witness ==
    /\ entry = "get_outgoing_transactions" /\ done
    /\ responses = <<429>> /\ lastEvent = "request"
    /\ Len(AggTxs) = 2
    /\ returned = [value |-> <<>>]

====
